---------------------------- MODULE Spec2Model ----------------------------
(***************************************************************************)
(* Quiz-Stats: live poll + Q&A server (Express handlers over one SQLite    *)
(* store, Socket.IO broadcasts).                                           *)
(*                                                                         *)
(* The store (tables questions, options, responses, qna_submissions, meta  *)
(* and the AUTOINCREMENT counters) is shared by the server processes that  *)
(* the README's deployment notes allow ("multiple instances are fine for   *)
(* reads; writes are serialized by SQLite").  Every SQL statement, or      *)
(* db.transaction, is one atomic step on the store; a handler that issues  *)
(* several statements is a sequence of steps of one process, and a process *)
(* runs one handler at a time (the handlers are synchronous).  The         *)
(* io.emit and res.json that follow a handler's last statement belong to   *)
(* that last step.                                                         *)
(***************************************************************************)
EXTENDS Integers, Sequences, FiniteSets, Bags, TLC

VARIABLES
    questions,   \* table questions: set of [id, correct_option_id]
    options,     \* table options: set of [id, question_id]
    responses,   \* table responses: bag of [question_id, option_id, device_id]
    qna,         \* table qna_submissions: set of [id, user, text]
    meta,        \* table meta: function key -> value (strings)
    seq,         \* sqlite_sequence: AUTOINCREMENT counters per table
    idx,         \* idx_responses_device_question exists
    pc,          \* per process: position in startup or in a handler
    loc,         \* per process: the locals of the handler it is running
    last,        \* the response and the events of the step just taken (NoRequest: none)
    crashes,     \* number of process crashes so far
    rejected     \* history: the ids POST /api/qna/reject was answered ok for, each
                 \* with whether a submission had been given the id by then

store == <<questions, options, responses, qna, meta, seq, idx>>
vars == <<questions, options, responses, qna, meta, seq, idx, pc, loc, last, crashes,
          rejected>>

(***************************************************************************)
(* Bounds                                                                  *)
(***************************************************************************)
MaxRows == 2       \* rows the ledger holds at most: no vote or batch is sent beyond
MaxCrashes == 1    \* process crashes in one behaviour
MaxQna == 2        \* Q&A submissions in one behaviour

Proc == {"p1", "p2"}

(***************************************************************************)
(* JavaScript values                                                       *)
(***************************************************************************)
\* a JS number: NaN or an integer
NaN == [nan |-> TRUE, n |-> 0]
Num(n) == [nan |-> FALSE, n |-> n]

\* a JSON value of a request body: undefined, null, a boolean (n is 1 for
\* true), a number, or a string of characters s
Undefined == [kind |-> "undefined", n |-> 0, s |-> <<>>]
JNull == [kind |-> "null", n |-> 0, s |-> <<>>]
JNum(n) == [kind |-> "number", n |-> n, s |-> <<>>]
JStr(s) == [kind |-> "string", n |-> 0, s |-> s]
JBool(b) == [kind |-> "boolean", n |-> IF b THEN 1 ELSE 0, s |-> <<>>]

IsSpace(c) == c = " "

RECURSIVE TrimStart(_)
TrimStart(s) ==
    IF s # <<>> /\ IsSpace(Head(s)) THEN TrimStart(Tail(s)) ELSE s

RECURSIVE TrimEnd(_)
TrimEnd(s) ==
    IF s # <<>> /\ IsSpace(s[Len(s)]) THEN TrimEnd(SubSeq(s, 1, Len(s) - 1)) ELSE s

\* String.prototype.trim
Trim(s) == TrimEnd(TrimStart(s))

\* the number a string spells: blank is 0, one decimal digit is its value,
\* anything else here is not a number
StringToNumber(s) ==
    LET t == Trim(s)
    IN IF t = <<>> THEN Num(0)
       ELSE IF Len(t) = 1 /\ \E n \in 0..9 : ToString(n) = t[1]
       THEN Num(CHOOSE n \in 0..9 : ToString(n) = t[1])
       ELSE NaN

\* Number(x)
Number(x) ==
    CASE x.kind \in {"number", "boolean"} -> Num(x.n)
      [] x.kind = "null" -> Num(0)
      [] x.kind = "string" -> StringToNumber(x.s)
      [] OTHER -> NaN

\* !x on a JS number
Falsy(x) == x.nan \/ x.n = 0

\* !x on a JSON value
JFalsy(x) ==
    CASE x.kind \in {"number", "boolean"} -> x.n = 0
      [] x.kind = "string" -> x.s = <<>>
      [] OTHER -> TRUE

\* String(x || '')
StringOr(x) ==
    CASE x.kind = "string" -> x.s
      [] x.kind = "number" /\ x.n > 0 -> <<ToString(x.n)>>
      [] x.kind = "number" /\ x.n < 0 -> <<"-", ToString(-x.n)>>
      [] x.kind = "boolean" /\ x.n = 1 -> <<"t", "r", "u", "e">>
      [] OTHER -> <<>>

\* Number(s) of a stored value, which String(n) wrote
ParseNumber(s) ==
    IF \E n \in -1..9 : ToString(n) = s
    THEN Num(CHOOSE n \in -1..9 : ToString(n) = s)
    ELSE NaN

Min(a, b) == IF a < b THEN a ELSE b
Max(a, b) == IF a > b THEN a ELSE b

(***************************************************************************)
(* The store                                                               *)
(***************************************************************************)
Null == {}
Some(x) == {x}

Row(q, o, d) == [question_id |-> q, option_id |-> o, device_id |-> d]

QuestionIds == {q.id : q \in questions}
OptionIds == {o.id : o \in options}

\* getMeta.get(key)?.value || dflt
MetaOr(key, dflt) ==
    IF key \in DOMAIN meta /\ meta[key] # "" THEN meta[key] ELSE dflt

\* setMeta.run(key, value): INSERT ... ON CONFLICT(key) DO UPDATE
SetMeta(m, key, value) == (key :> value) @@ m

\* (mutant) the SELECT / DELETE compares option_id instead of question_id
MatchingOptionColumn(d, q) ==
    {r \in BagToSet(responses) : r.device_id = Some(d) /\ r.option_id = q}

\* (mutant) the SELECT / DELETE forgets the question
MatchingDeviceOnly(d, q) ==
    {r \in BagToSet(responses) : r.device_id = Some(d)}

\* (mutant) the SELECT / DELETE compares the untrimmed deviceId and finds no row
MatchingNone(d, q) == {}

\* rows of the ledger matching device_id = ? AND question_id = ?
Matching(d, q) ==
    {r \in BagToSet(responses) : r.device_id = Some(d) /\ r.question_id = q}

RECURSIVE SumCopies(_, _)
SumCopies(B, S) ==
    IF S = {} THEN 0
    ELSE LET r == CHOOSE x \in S : TRUE
         IN CopiesIn(r, B) + SumCopies(B, S \ {r})

\* the foreign keys of responses (better-sqlite3 enforces them)
ForeignKeysOk(row) ==
    /\ row.question_id \in QuestionIds
    /\ row.option_id \in OptionIds

\* (mutant) the index is never consulted
UniqueOkNoIndex(B, row) == TRUE

\* the unique index on responses(device_id, question_id); NULLs are distinct
UniqueOk(B, row) ==
    \/ ~idx
    \/ row.device_id = Null
    \/ ~\E r \in BagToSet(B) :
          r.device_id = row.device_id /\ r.question_id = row.question_id

\* whether INSERT INTO responses of row succeeds on ledger B
InsertOk(B, row) == ForeignKeysOk(row) /\ UniqueOk(B, row)

(***************************************************************************)
(* Seed generations                                                        *)
(***************************************************************************)
SeedVersion == "4"
SeedQuestions == 4
SeedOptionsPerQuestion == 3

PriorSeedVersion == "2"
PriorSeedQuestions == 3

\* insertQuestion / insertOption inside one seed transaction, starting from
\* the AUTOINCREMENT counters sq, so
SeededQuestions(sq, n) ==
    {[id |-> sq + k, correct_option_id |-> Null] : k \in 1..n}
SeededOptions(sq, so, n) ==
    {[id |-> so + (k - 1) * SeedOptionsPerQuestion + j, question_id |-> sq + k] :
        k \in 1..n, j \in 1..SeedOptionsPerQuestion}

NoLocals ==
    [q |-> 0, o |-> 0, d |-> <<>>, current |-> 0, next |-> 0, total |-> 0, missing |-> {}]

\* a response: the request's parsed arguments (q, o, d, id, answers), the
\* status and the body fields of res.json, the events emitted before it, and
\* for next() the poll_status that its last statement overwrote (before)
NoRequest ==
    [op |-> "none", proc |-> "", status |-> 0, error |-> "", q |-> NaN, o |-> NaN,
     d |-> <<>>, id |-> NaN, answers |-> <<>>, removed |-> 0, index |-> 0,
     current |-> 0, total |-> 0, before |-> "", poll |-> "", reveal |-> FALSE,
     stats |-> {},
     list |-> <<>>, events |-> <<>>]

\* io.emit(name) and io.emit(name, { id })
Ev(name) == [name |-> name, id |-> 0]
EvId(name, id) == [name |-> name, id |-> id]

\* a database file never opened before
FreshStore ==
    [questions |-> {}, options |-> {}, responses |-> EmptyBag, qna |-> {},
     meta |-> <<>>, seq |-> [questions |-> 0, options |-> 0, qna |-> 0],
     idx |-> FALSE]

\* a database file left by the previous release (seed_version 2, three
\* questions, no device_id column): the poll ended on its last question with
\* one answer recorded
PriorStore ==
    [questions |-> SeededQuestions(0, PriorSeedQuestions),
     options |-> SeededOptions(0, 0, PriorSeedQuestions),
     responses |-> SetToBag({Row(1, 1, Null)}),
     qna |-> {},
     meta |-> ("seed_version" :> PriorSeedVersion) @@ ("poll_status" :> "ended")
              @@ ("active_question_index" :> "2"),
     seq |-> [questions |-> PriorSeedQuestions,
              options |-> PriorSeedQuestions * SeedOptionsPerQuestion, qna |-> 0],
     idx |-> FALSE]

\* the store s, with the processes of up listening and the others not started
InitFrom(s, up) ==
    /\ questions = s.questions
    /\ options = s.options
    /\ responses = s.responses
    /\ qna = s.qna
    /\ meta = s.meta
    /\ seq = s.seq
    /\ idx = s.idx
    /\ pc = [p \in Proc |-> IF p \in up THEN "ready" ELSE "down"]
    /\ loc = [p \in Proc |-> NoLocals]
    /\ last = NoRequest
    /\ crashes = 0
    /\ rejected = {}

Init == \E s \in {FreshStore, PriorStore} : InitFrom(s, {})

(***************************************************************************)
(* Startup                                                                 *)
(***************************************************************************)
\* CREATE TABLE IF NOT EXISTS ...; the device_id column and the unique index
Migrate(p) ==
    /\ pc[p] = "down"
    /\ idx' = TRUE
    /\ pc' = [pc EXCEPT ![p] = "seed_check"]
    /\ last' = NoRequest
    /\ UNCHANGED <<questions, options, responses, qna, meta, seq, loc, crashes, rejected>>

\* currentSeed = getMeta.get('seed_version')?.value || '0'
SeedCheck(p) ==
    /\ pc[p] = "seed_check"
    /\ pc' = [pc EXCEPT ![p] =
                 IF MetaOr("seed_version", "0") # SeedVersion
                 THEN "seed_delete" ELSE "defaults_read"]
    /\ last' = NoRequest
    /\ UNCHANGED <<store, loc, crashes, rejected>>

\* deleteAll()
DeleteAll(p) ==
    /\ pc[p] = "seed_delete"
    /\ responses' = EmptyBag
    /\ options' = {}
    /\ questions' = {}
    /\ pc' = [pc EXCEPT ![p] = "seed_insert"]
    /\ last' = NoRequest
    /\ UNCHANGED <<qna, meta, seq, idx, loc, crashes, rejected>>

\* seedV4()
SeedV4(p) ==
    /\ pc[p] = "seed_insert"
    /\ questions' = questions \cup SeededQuestions(seq.questions, SeedQuestions)
    /\ options' = options \cup SeededOptions(seq.questions, seq.options, SeedQuestions)
    /\ seq' = [seq EXCEPT !.questions = @ + SeedQuestions,
                          !.options = @ + SeedQuestions * SeedOptionsPerQuestion]
    /\ pc' = [pc EXCEPT ![p] = "seed_mark"]
    /\ last' = NoRequest
    /\ UNCHANGED <<responses, qna, meta, idx, loc, crashes, rejected>>

\* setMeta.run('seed_version', '4')
SeedMark(p) ==
    /\ pc[p] = "seed_mark"
    /\ meta' = SetMeta(meta, "seed_version", SeedVersion)
    /\ pc' = [pc EXCEPT ![p] = "defaults_read"]
    /\ last' = NoRequest
    /\ UNCHANGED <<questions, options, responses, qna, seq, idx, loc, crashes, rejected>>

PollDefaults ==
    ("poll_status" :> "idle") @@ ("active_question_index" :> "0")
        @@ ("reveal_correct" :> "0")

\* the three getMeta.get(key) tests of the poll state defaults
DefaultsRead(p) ==
    /\ pc[p] = "defaults_read"
    /\ loc' = [loc EXCEPT ![p] =
                  [NoLocals EXCEPT !.missing = DOMAIN PollDefaults \ DOMAIN meta]]
    /\ pc' = [pc EXCEPT ![p] = "defaults_write"]
    /\ last' = NoRequest
    /\ UNCHANGED <<store, crashes, rejected>>

\* the setMeta.run(key, default) of the keys found missing; server.listen
DefaultsWrite(p) ==
    /\ pc[p] = "defaults_write"
    /\ meta' = [k \in loc[p].missing |-> PollDefaults[k]] @@ meta
    /\ loc' = [loc EXCEPT ![p] = NoLocals]
    /\ pc' = [pc EXCEPT ![p] = "ready"]
    /\ last' = NoRequest
    /\ UNCHANGED <<questions, options, responses, qna, seq, idx, crashes, rejected>>

\* the process dies (and is restarted by Migrate); a statement or transaction
\* in progress is rolled back, the committed ones stay
Crash(p) ==
    /\ pc[p] # "down"
    /\ crashes < MaxCrashes
    /\ crashes' = crashes + 1
    /\ pc' = [pc EXCEPT ![p] = "down"]
    /\ loc' = [loc EXCEPT ![p] = NoLocals]
    /\ last' = NoRequest
    /\ UNCHANGED <<store, rejected>>

(***************************************************************************)
(* Requests                                                                *)
(***************************************************************************)
\* the n smallest elements of a set of integers
RECURSIVE Smallest(_, _)
Smallest(S, n) ==
    IF n = 0 \/ S = {} THEN {}
    ELSE LET m == CHOOSE x \in S : \A y \in S : x <= y
         IN {m} \cup Smallest(S \ {m}, n - 1)

\* an id that names no row
StaleId == JNum(-1)

Req(op, p) == [NoRequest EXCEPT !.op = op, !.proc = p]

Respond(p, r) ==
    /\ last' = r
    /\ pc' = [pc EXCEPT ![p] = "ready"]
    /\ loc' = [loc EXCEPT ![p] = NoLocals]

(***************************************************************************)
(* GET /api/state                                                          *)
(***************************************************************************)
\* the four SELECTs, taken as one read of the store
State(p) ==
    /\ pc[p] = "ready"
    /\ Respond(p, [Req("state", p) EXCEPT
                      !.status = 200,
                      !.poll = MetaOr("poll_status", "idle"),
                      !.index = ParseNumber(MetaOr("active_question_index", "0")).n,
                      !.total = Cardinality(questions),
                      !.reveal = MetaOr("reveal_correct", "") = "1"])
    /\ UNCHANGED <<store, crashes, rejected>>

(***************************************************************************)
(* POST /api/vote                                                          *)
(***************************************************************************)
\* validation and the SELECT of an existing vote; the answer to a removal
\* (reset, start) stays the last one observed while the vote is in progress
\* (mutant) a vote on an ended poll is answered as a repeated one
VoteCheckEndedRefuses(p, rq, ro, rd) ==
    /\ pc[p] = "ready"
    /\ BagCardinality(responses) < MaxRows
    /\ LET q == Number(rq)
           o == Number(ro)
           d == Trim(StringOr(rd))
           r == [Req("vote", p) EXCEPT !.q = q, !.o = o, !.d = d]
       IN IF Falsy(q) \/ Falsy(o) \/ d = <<>>
          THEN Respond(p, [Req("vote", p) EXCEPT !.status = 400, !.error = "Invalid vote"])
          ELSE IF Matching(d, q.n) # {} \/ MetaOr("poll_status", "idle") = "ended"
          THEN Respond(p, [r EXCEPT !.status = 409, !.error = "ALREADY_VOTED"])
          ELSE /\ pc' = [pc EXCEPT ![p] = "vote_insert"]
               /\ loc' = [loc EXCEPT ![p] = [NoLocals EXCEPT !.q = q.n, !.o = o.n, !.d = d]]
               /\ last' = IF last.op \in {"reset", "start"} THEN last ELSE NoRequest
    /\ UNCHANGED <<store, crashes, rejected>>

VoteCheck(p, rq, ro, rd) ==
    /\ pc[p] = "ready"
    /\ BagCardinality(responses) < MaxRows
    /\ LET q == Number(rq)
           o == Number(ro)
           d == Trim(StringOr(rd))
           r == [Req("vote", p) EXCEPT !.q = q, !.o = o, !.d = d]
       IN IF Falsy(q) \/ Falsy(o) \/ d = <<>>
          THEN Respond(p, [Req("vote", p) EXCEPT !.status = 400, !.error = "Invalid vote"])
          ELSE IF Matching(d, q.n) # {}
          THEN Respond(p, [r EXCEPT !.status = 409, !.error = "ALREADY_VOTED"])
          ELSE /\ pc' = [pc EXCEPT ![p] = "vote_insert"]
               /\ loc' = [loc EXCEPT ![p] = [NoLocals EXCEPT !.q = q.n, !.o = o.n, !.d = d]]
               /\ last' = IF last.op \in {"reset", "start"} THEN last ELSE NoRequest
    /\ UNCHANGED <<store, crashes, rejected>>

\* (mutant) io.emit is called before the INSERT
VoteInsertEmitsFirst(p) ==
    /\ pc[p] = "vote_insert"
    /\ LET row == Row(loc[p].q, loc[p].o, Some(loc[p].d))
           r == [Req("vote", p) EXCEPT !.q = Num(loc[p].q), !.o = Num(loc[p].o),
                                      !.d = loc[p].d, !.events = <<Ev("statsUpdated")>>]
       IN IF InsertOk(responses, row)
          THEN /\ responses' = responses (+) SetToBag({row})
               /\ Respond(p, [r EXCEPT !.status = 200])
          ELSE /\ responses' = responses
               /\ Respond(p, [r EXCEPT !.status = 500, !.error = "SqliteError"])
    /\ UNCHANGED <<questions, options, qna, meta, seq, idx, crashes, rejected>>

\* the INSERT; a constraint failure throws out of the handler, which answers 500
VoteInsert(p) ==
    /\ pc[p] = "vote_insert"
    /\ LET row == Row(loc[p].q, loc[p].o, Some(loc[p].d))
           r == [Req("vote", p) EXCEPT !.q = Num(loc[p].q), !.o = Num(loc[p].o),
                                      !.d = loc[p].d]
       IN IF InsertOk(responses, row)
          THEN /\ responses' = responses (+) SetToBag({row})
               /\ Respond(p, [r EXCEPT !.status = 200, !.events = <<Ev("statsUpdated")>>])
          ELSE /\ responses' = responses
               /\ Respond(p, [r EXCEPT !.status = 500, !.error = "SqliteError"])
    /\ UNCHANGED <<questions, options, qna, meta, seq, idx, crashes, rejected>>

(***************************************************************************)
(* POST /api/vote/reset                                                    *)
(***************************************************************************)
ResetVote(p, rq, rd) ==
    /\ pc[p] = "ready"
    /\ LET q == Number(rq)
           d == Trim(StringOr(rd))
           r == [Req("reset", p) EXCEPT !.q = q, !.d = d]
       IN IF Falsy(q) \/ d = <<>>
          THEN /\ responses' = responses
               /\ Respond(p, [Req("reset", p) EXCEPT !.status = 400,
                                                    !.error = "Invalid reset"])
          ELSE LET gone == Matching(d, q.n)
                   changes == SumCopies(responses, gone)
               IN /\ responses' = responses (-) [x \in gone |-> CopiesIn(x, responses)]
                  /\ Respond(p, [r EXCEPT !.status = 200, !.removed = changes,
                                     !.events = IF changes > 0 THEN <<Ev("statsUpdated")>>
                                                ELSE <<>>])
    /\ UNCHANGED <<questions, options, qna, meta, seq, idx, crashes, rejected>>

(***************************************************************************)
(* POST /api/admin/start, next, end                                        *)
(***************************************************************************)
\* (mutant) DELETE FROM responses WHERE device_id IS NOT NULL
StartDeleteDeviceVotes(p) ==
    /\ pc[p] = "ready"
    /\ responses' = [r \in {x \in BagToSet(responses) : x.device_id = Null}
                       |-> CopiesIn(r, responses)]
    /\ pc' = [pc EXCEPT ![p] = "start_index"]
    /\ last' = NoRequest
    /\ UNCHANGED <<questions, options, qna, meta, seq, idx, loc, crashes, rejected>>

\* db.exec('DELETE FROM responses;')
StartDelete(p) ==
    /\ pc[p] = "ready"
    /\ responses' = EmptyBag
    /\ pc' = [pc EXCEPT ![p] = "start_index"]
    /\ last' = NoRequest
    /\ UNCHANGED <<questions, options, qna, meta, seq, idx, loc, crashes, rejected>>

\* setMeta.run('active_question_index', '0')
StartIndex(p) ==
    /\ pc[p] = "start_index"
    /\ meta' = SetMeta(meta, "active_question_index", "0")
    /\ pc' = [pc EXCEPT ![p] = "start_status"]
    /\ last' = NoRequest
    /\ UNCHANGED <<questions, options, responses, qna, seq, idx, loc, crashes, rejected>>

\* io.emit('stateChanged'): what start() emits before it answers
StartEvents == <<Ev("stateChanged")>>

\* setMeta.run('poll_status', 'running'); io.emit('stateChanged')
StartStatus(p) ==
    /\ pc[p] = "start_status"
    /\ meta' = SetMeta(meta, "poll_status", "running")
    /\ Respond(p, [Req("start", p) EXCEPT !.status = 200, !.events = StartEvents])
    /\ UNCHANGED <<questions, options, responses, qna, seq, idx, crashes, rejected>>

\* total = SELECT COUNT(1) FROM questions
NextTotal(p) ==
    /\ pc[p] = "ready"
    /\ loc' = [loc EXCEPT ![p] = [NoLocals EXCEPT !.total = Cardinality(questions)]]
    /\ pc' = [pc EXCEPT ![p] = "next_current"]
    /\ last' = NoRequest
    /\ UNCHANGED <<store, crashes, rejected>>

\* (mutant) no clamp at the end of the list
NextIndexUnclamped(current, total) == current + 1

\* Math.min(current + 1, Math.max(0, total - 1))
NextIndex(current, total) == Min(current + 1, Max(0, total - 1))

\* current = Number(getMeta.get('active_question_index')?.value || '0'); next
NextCurrent(p) ==
    /\ pc[p] = "next_current"
    /\ LET current == ParseNumber(MetaOr("active_question_index", "0"))
       IN loc' = [loc EXCEPT ![p].current = current.n,
                             ![p].next = NextIndex(current.n, loc[p].total)]
    /\ pc' = [pc EXCEPT ![p] = "next_index"]
    /\ last' = NoRequest
    /\ UNCHANGED <<store, crashes, rejected>>

\* setMeta.run('active_question_index', String(next))
NextSetIndex(p) ==
    /\ pc[p] = "next_index"
    /\ meta' = SetMeta(meta, "active_question_index", ToString(loc[p].next))
    /\ pc' = [pc EXCEPT ![p] = "next_status"]
    /\ last' = NoRequest
    /\ UNCHANGED <<questions, options, responses, qna, seq, idx, loc, crashes, rejected>>

\* (mutant) an ended poll stays ended
NextStatusKeepsEnded(p) ==
    /\ pc[p] = "next_status"
    /\ meta' = IF MetaOr("poll_status", "idle") = "ended" THEN meta
               ELSE SetMeta(meta, "poll_status", "running")
    /\ Respond(p, [Req("next", p) EXCEPT !.status = 200, !.index = loc[p].next,
                                       !.before = MetaOr("poll_status", "idle"),
                                       !.current = loc[p].current,
                                       !.total = loc[p].total,
                                       !.events = <<Ev("stateChanged")>>])
    /\ UNCHANGED <<questions, options, responses, qna, seq, idx, crashes, rejected>>

\* setMeta.run('poll_status', 'running'); io.emit('stateChanged')
NextStatus(p) ==
    /\ pc[p] = "next_status"
    /\ meta' = SetMeta(meta, "poll_status", "running")
    /\ Respond(p, [Req("next", p) EXCEPT !.status = 200, !.index = loc[p].next,
                                       !.before = MetaOr("poll_status", "idle"),
                                       !.current = loc[p].current,
                                       !.total = loc[p].total,
                                       !.events = <<Ev("stateChanged")>>])
    /\ UNCHANGED <<questions, options, responses, qna, seq, idx, crashes, rejected>>

\* (mutant) the handler forgets io.emit
EndSilent(p) ==
    /\ pc[p] = "ready"
    /\ meta' = SetMeta(meta, "poll_status", "ended")
    /\ Respond(p, [Req("end", p) EXCEPT !.status = 200])
    /\ UNCHANGED <<questions, options, responses, qna, seq, idx, crashes, rejected>>

End(p) ==
    /\ pc[p] = "ready"
    /\ meta' = SetMeta(meta, "poll_status", "ended")
    /\ Respond(p, [Req("end", p) EXCEPT !.status = 200, !.events = <<Ev("stateChanged")>>])
    /\ UNCHANGED <<questions, options, responses, qna, seq, idx, crashes, rejected>>

(***************************************************************************)
(* POST /api/submit                                                        *)
(***************************************************************************)
\* an entry of req.body.answers: an object with the two ids, or null
Answer(q, o) == [object |-> TRUE, questionId |-> q, optionId |-> o]
NullAnswer == [object |-> FALSE, questionId |-> Undefined, optionId |-> Undefined]

\* the value bound to an INTEGER column: a number is stored as it is, a string
\* that spells one is converted to it; a string that spells none stays text
\* and matches no key, and a boolean cannot be bound
Bindable(x) ==
    \/ x.kind = "number"
    \/ x.kind = "string" /\ ~StringToNumber(x.s).nan

\* save(rows): the loop of the transaction.  ok is FALSE when it threw: an
\* insert failed, or row.questionId was read of a null row (TypeError)
RECURSIVE Save(_, _)
Save(B, rows) ==
    IF rows = <<>> THEN [ok |-> TRUE, B |-> B, error |-> ""]
    ELSE LET row == Head(rows)
         IN IF ~row.object
            THEN [ok |-> FALSE, B |-> B, error |-> "TypeError"]
            ELSE IF JFalsy(row.questionId) \/ JFalsy(row.optionId)
            THEN Save(B, Tail(rows))
            ELSE IF /\ Bindable(row.questionId)
                    /\ Bindable(row.optionId)
                    /\ InsertOk(B, Row(Number(row.questionId).n,
                                        Number(row.optionId).n, Null))
            THEN Save(B (+) SetToBag({Row(Number(row.questionId).n,
                                          Number(row.optionId).n, Null)}),
                      Tail(rows))
            ELSE [ok |-> FALSE, B |-> B, error |-> "SqliteError"]

\* (mutant) the loop runs outside db.transaction: the rows inserted before the
\* throw stay
BulkSubmitNoTransaction(p, answers) ==
    /\ pc[p] = "ready"
    /\ BagCardinality(responses) + Len(answers) <= MaxRows
    /\ IF Len(answers) = 0
       THEN /\ responses' = responses
            /\ Respond(p, [Req("submit", p) EXCEPT !.status = 400,
                                                  !.error = "No answers provided"])
       ELSE LET saved == Save(responses, answers)
            IN /\ responses' = saved.B
               /\ IF saved.ok
                  THEN Respond(p, [Req("submit", p) EXCEPT
                                      !.status = 200, !.answers = answers,
                                      !.events = <<Ev("statsUpdated")>>])
                  ELSE Respond(p, [Req("submit", p) EXCEPT
                                      !.status = 500, !.answers = answers,
                                      !.error = saved.error])
    /\ UNCHANGED <<questions, options, qna, meta, seq, idx, crashes, rejected>>

\* answers: the rows of req.body.answers, <<>> when it is no array
BulkSubmit(p, answers) ==
    /\ pc[p] = "ready"
    /\ BagCardinality(responses) + Len(answers) <= MaxRows
    /\ IF Len(answers) = 0
       THEN /\ responses' = responses
            /\ Respond(p, [Req("submit", p) EXCEPT !.status = 400,
                                                  !.error = "No answers provided"])
       ELSE LET saved == Save(responses, answers)
            IN IF saved.ok
               THEN /\ responses' = saved.B
                    /\ Respond(p, [Req("submit", p) EXCEPT
                                      !.status = 200, !.answers = answers,
                                      !.events = <<Ev("statsUpdated")>>])
               ELSE /\ responses' = responses
                    /\ Respond(p, [Req("submit", p) EXCEPT
                                      !.status = 500, !.answers = answers,
                                      !.error = saved.error])
    /\ UNCHANGED <<questions, options, qna, meta, seq, idx, crashes, rejected>>

(***************************************************************************)
(* GET /api/stats                                                          *)
(***************************************************************************)
\* (mutant) SELECT COUNT(DISTINCT ...): equal rows are counted once
CountOptionDistinct(B, o) ==
    Cardinality({r \in BagToSet(B) : r.option_id = o})

\* countStmt.get(o): SELECT COUNT(1) FROM responses WHERE option_id = ?
CountOption(B, o) ==
    SumCopies(B, {r \in BagToSet(B) : r.option_id = o})

RECURSIVE SumCounts(_, _)
SumCounts(counts, S) ==
    IF S = {} THEN 0
    ELSE LET o == CHOOSE x \in S : TRUE
         IN counts[o] + SumCounts(counts, S \ {o})

\* one entry of the payload: the options of q with their counts, and the total
Tally(B, q) ==
    LET opts == {o.id : o \in {x \in options : x.question_id = q.id}}
        counts == [o \in opts |-> CountOption(B, o)]
    IN [id |-> q.id, total |-> SumCounts(counts, opts), options |-> counts,
        correctOptionId |-> q.correct_option_id]

\* rqid: req.query.questionId (a string, or undefined)
Stats(p, rqid) ==
    /\ pc[p] = "ready"
    /\ LET qid == IF JFalsy(rqid) THEN NaN ELSE Number(rqid)
           selected == IF Falsy(qid) THEN questions
                       ELSE {q \in questions : q.id = qid.n}
       IN Respond(p, [Req("stats", p) EXCEPT
                         !.status = 200, !.q = qid,
                         !.stats = {Tally(responses, q) : q \in selected}])
    /\ UNCHANGED <<store, crashes, rejected>>

(***************************************************************************)
(* POST /api/admin/correct, reveal-correct                                 *)
(***************************************************************************)
\* the value SQLite stores for a bound JS number: NaN becomes NULL
Stored(x) == IF x.nan THEN Null ELSE Some(x.n)

\* (mutant) the handler emits stateChanged instead of statsUpdated
CorrectEmitsState(p, rq, ro) ==
    /\ pc[p] = "ready"
    /\ LET questionId == Number(rq)
           optionId == IF ro.kind = "null" THEN Null ELSE Stored(Number(ro))
       IN IF Falsy(questionId)
          THEN /\ questions' = questions
               /\ Respond(p, [Req("correct", p) EXCEPT !.status = 400,
                                                      !.error = "questionId required"])
          ELSE /\ questions' = {IF x.id = questionId.n
                                THEN [x EXCEPT !.correct_option_id = optionId]
                                ELSE x : x \in questions}
               /\ Respond(p, [Req("correct", p) EXCEPT
                                 !.status = 200, !.q = questionId,
                                 !.o = IF ro.kind = "null" THEN NaN ELSE Number(ro),
                                 !.events = <<Ev("stateChanged")>>])
    /\ UNCHANGED <<options, responses, qna, meta, seq, idx, crashes, rejected>>

Correct(p, rq, ro) ==
    /\ pc[p] = "ready"
    /\ LET questionId == Number(rq)
           optionId == IF ro.kind = "null" THEN Null ELSE Stored(Number(ro))
       IN IF Falsy(questionId)
          THEN /\ questions' = questions
               /\ Respond(p, [Req("correct", p) EXCEPT !.status = 400,
                                                      !.error = "questionId required"])
          ELSE /\ questions' = {IF x.id = questionId.n
                                THEN [x EXCEPT !.correct_option_id = optionId]
                                ELSE x : x \in questions}
               /\ Respond(p, [Req("correct", p) EXCEPT
                                 !.status = 200, !.q = questionId,
                                 !.o = IF ro.kind = "null" THEN NaN ELSE Number(ro),
                                 !.events = <<Ev("statsUpdated")>>])
    /\ UNCHANGED <<options, responses, qna, meta, seq, idx, crashes, rejected>>

\* (mutant) the flag is written under the key of the status
RevealCorrectWrongKey(p, rv) ==
    /\ pc[p] = "ready"
    /\ LET reveal == ~JFalsy(rv)
       IN /\ meta' = SetMeta(meta, "poll_status", IF reveal THEN "1" ELSE "0")
          /\ Respond(p, [Req("reveal", p) EXCEPT !.status = 200, !.reveal = reveal,
                                                !.events = <<Ev("stateChanged")>>])
    /\ UNCHANGED <<questions, options, responses, qna, seq, idx, crashes, rejected>>

RevealCorrect(p, rv) ==
    /\ pc[p] = "ready"
    /\ LET reveal == ~JFalsy(rv)
       IN /\ meta' = SetMeta(meta, "reveal_correct", IF reveal THEN "1" ELSE "0")
          /\ Respond(p, [Req("reveal", p) EXCEPT !.status = 200, !.reveal = reveal,
                                                !.events = <<Ev("stateChanged")>>])
    /\ UNCHANGED <<questions, options, responses, qna, seq, idx, crashes, rejected>>

(***************************************************************************)
(* Q&A                                                                     *)
(***************************************************************************)
Anonymous == <<"A">>

\* (x || dflt): a string operand; .trim() of anything else throws
OrString(x, dflt) == IF JFalsy(x) THEN dflt ELSE x.s

\* (mutant) the id column is a plain INTEGER PRIMARY KEY, without
\* AUTOINCREMENT: the new row takes the largest id in the table plus one
QnaSubmitRowid(p, rtext, ruser) ==
    /\ pc[p] = "ready"
    /\ seq.qna < MaxQna
    /\ IF \/ ~JFalsy(rtext) /\ rtext.kind # "string"
          \/ ~JFalsy(ruser) /\ ruser.kind # "string"
       THEN /\ UNCHANGED <<qna, seq>>
            /\ Respond(p, [Req("qnaSubmit", p) EXCEPT !.status = 500,
                                                     !.error = "TypeError"])
       ELSE LET text == Trim(OrString(rtext, <<>>))
                trimmed == Trim(OrString(ruser, Anonymous))
                user == IF trimmed = <<>> THEN Anonymous ELSE trimmed
                id == IF qna = {} THEN 1
                      ELSE 1 + CHOOSE n \in {r.id : r \in qna} :
                                  \A r \in qna : r.id <= n
            IN IF text = <<>>
               THEN /\ UNCHANGED <<qna, seq>>
                    /\ Respond(p, [Req("qnaSubmit", p) EXCEPT !.status = 400,
                                                             !.error = "Text required"])
               ELSE /\ qna' = qna \cup {[id |-> id, user |-> user, text |-> text]}
                    /\ seq' = [seq EXCEPT !.qna = @ + 1]
                    /\ Respond(p, [Req("qnaSubmit", p) EXCEPT
                                      !.status = 200, !.id = Num(id),
                                      !.events = <<Ev("qnaSubmitted")>>])
    /\ UNCHANGED <<questions, options, responses, meta, idx, crashes, rejected>>

QnaSubmit(p, rtext, ruser) ==
    /\ pc[p] = "ready"
    /\ seq.qna < MaxQna
    /\ IF \/ ~JFalsy(rtext) /\ rtext.kind # "string"
          \/ ~JFalsy(ruser) /\ ruser.kind # "string"
       THEN /\ UNCHANGED <<qna, seq>>
            /\ Respond(p, [Req("qnaSubmit", p) EXCEPT !.status = 500,
                                                     !.error = "TypeError"])
       ELSE LET text == Trim(OrString(rtext, <<>>))
                trimmed == Trim(OrString(ruser, Anonymous))
                user == IF trimmed = <<>> THEN Anonymous ELSE trimmed
                id == seq.qna + 1
            IN IF text = <<>>
               THEN /\ UNCHANGED <<qna, seq>>
                    /\ Respond(p, [Req("qnaSubmit", p) EXCEPT !.status = 400,
                                                             !.error = "Text required"])
               ELSE /\ qna' = qna \cup {[id |-> id, user |-> user, text |-> text]}
                    /\ seq' = [seq EXCEPT !.qna = id]
                    /\ Respond(p, [Req("qnaSubmit", p) EXCEPT
                                      !.status = 200, !.id = Num(id),
                                      !.events = <<Ev("qnaSubmitted")>>])
    /\ UNCHANGED <<questions, options, responses, meta, idx, crashes, rejected>>

QnaListLimit == 200

\* the rows ORDER BY id DESC LIMIT n
RECURSIVE NewestFirst(_, _)
NewestFirst(rows, n) ==
    IF n = 0 \/ rows = {} THEN <<>>
    ELSE LET top == CHOOSE r \in rows : \A x \in rows : x.id <= r.id
         IN <<top>> \o NewestFirst(rows \ {top}, n - 1)

QnaList(p) ==
    /\ pc[p] = "ready"
    /\ Respond(p, [Req("qnaList", p) EXCEPT !.status = 200,
                                           !.list = NewestFirst(qna, QnaListLimit)])
    /\ UNCHANGED <<store, crashes, rejected>>

QnaHighlight(p, rid) ==
    /\ pc[p] = "ready"
    /\ LET id == Number(rid)
       IN IF Falsy(id)
          THEN /\ meta' = meta
               /\ Respond(p, [Req("qnaHighlight", p) EXCEPT !.status = 400,
                                                           !.error = "id required"])
          ELSE /\ meta' = SetMeta(meta, "qna_highlight_id", ToString(id.n))
               /\ Respond(p, [Req("qnaHighlight", p) EXCEPT
                                 !.status = 200, !.id = id,
                                 !.events = <<EvId("qnaHighlighted", id.n)>>])
    /\ UNCHANGED <<questions, options, responses, qna, seq, idx, crashes, rejected>>

QnaGetHighlight(p) ==
    /\ pc[p] = "ready"
    /\ Respond(p, [Req("qnaGetHighlight", p) EXCEPT
                      !.status = 200,
                      !.id = ParseNumber(MetaOr("qna_highlight_id", "0"))])
    /\ UNCHANGED <<store, crashes, rejected>>

QnaReject(p, rid) ==
    /\ pc[p] = "ready"
    /\ LET id == Number(rid)
       IN IF Falsy(id)
          THEN /\ qna' = qna
               /\ rejected' = rejected
               /\ Respond(p, [Req("qnaReject", p) EXCEPT !.status = 400,
                                                        !.error = "id required"])
          ELSE /\ qna' = {r \in qna : r.id # id.n}
               /\ rejected' = rejected \cup {[id |-> id.n, issued |-> id.n \in 1..seq.qna]}
               /\ Respond(p, [Req("qnaReject", p) EXCEPT
                                 !.status = 200, !.id = id,
                                 !.events = <<EvId("qnaRejected", id.n)>>])
    /\ UNCHANGED <<questions, options, responses, meta, seq, idx, crashes>>

QnaUnhighlight(p) ==
    /\ pc[p] = "ready"
    /\ meta' = SetMeta(meta, "qna_highlight_id", "0")
    /\ Respond(p, [Req("qnaUnhighlight", p) EXCEPT
                      !.status = 200, !.events = <<EvId("qnaHighlighted", 0)>>])
    /\ UNCHANGED <<questions, options, responses, qna, seq, idx, crashes, rejected>>

(***************************************************************************)
(* Specifications                                                          *)
(***************************************************************************)
Startup(p) ==
    \/ Migrate(p)
    \/ SeedCheck(p)
    \/ DeleteAll(p)
    \/ SeedV4(p)
    \/ SeedMark(p)
    \/ DefaultsRead(p)
    \/ DefaultsWrite(p)

Vote(p, in) ==
    \/ \E rq \in in.q, ro \in in.o, rd \in in.d : VoteCheck(p, rq, ro, rd)
    \/ VoteInsert(p)

Reset(p, in) ==
    \E rq \in in.q, rd \in in.d : ResetVote(p, rq, rd)

\* batches of at most two answers, and a body without an array
Submit(p, in) ==
    \E answers \in {<<>>} \cup {<<a>> : a \in in.a} \cup (in.a \X in.a) :
        BulkSubmit(p, answers)

Start(p) == StartDelete(p) \/ StartIndex(p) \/ StartStatus(p)

AdvanceNext(p) == NextTotal(p) \/ NextCurrent(p) \/ NextSetIndex(p) \/ NextStatus(p)

Qna(p, in) ==
    \/ \E rtext \in in.text, ruser \in in.user : QnaSubmit(p, rtext, ruser)
    \/ QnaList(p)
    \/ \E rid \in in.id : QnaHighlight(p, rid)
    \/ QnaGetHighlight(p)
    \/ \E rid \in in.id : QnaReject(p, rid)
    \/ QnaUnhighlight(p)

\* what the clients send.  The ids of the first nq questions and no options
\* they were served, the malformed ids badq and bado, the deviceId values dev
Inputs(nq, no, badq, bado, dev) ==
    LET qs == badq \cup {JNum(q) : q \in Smallest(QuestionIds, nq)}
        os == bado \cup {JNum(o) : o \in Smallest(OptionIds, no)}
    IN [q |-> qs, o |-> os, d |-> dev,
        a |-> {Answer(q, o) : q \in qs, o \in os}]

\* the store once a process has completed startup on a fresh database file
ServingStore ==
    [questions |-> SeededQuestions(0, SeedQuestions),
     options |-> SeededOptions(0, 0, SeedQuestions),
     responses |-> EmptyBag,
     qna |-> {},
     meta |-> ("seed_version" :> SeedVersion) @@ PollDefaults,
     seq |-> [questions |-> SeedQuestions,
              options |-> SeedQuestions * SeedOptionsPerQuestion, qna |-> 0],
     idx |-> TRUE]

\* the first process listening on a fresh database, the second not started
InitServing == InitFrom(ServingStore, {"p1"})

\* the release running as one process (the single-process deployment): the
\* clients send the ids of the first two questions and the first two options
PollInputs ==
    Inputs(2, 2, {JNum(0), StaleId}, {},
           {JStr(<<" ">>), JStr(<<"a", " ">>), JStr(<<"b">>)})

\* the legacy client submits one answer, to the first question
PollBatches == Inputs(1, 1, {}, {}, {})

NextPoll ==
    \E p \in {"p1"} :
        \/ Startup(p)
        \/ Crash(p)
        \/ Vote(p, PollInputs)
        \/ Reset(p, PollInputs)
        \/ Submit(p, PollBatches)
        \/ Start(p)
        \/ AdvanceNext(p)
        \/ End(p)

SpecPoll == Init /\ [][NextPoll]_vars

\* two processes on one store; one device answering the first question
RaceInputs == Inputs(1, 1, {JNum(0)}, {}, {JStr(<<" ">>), JStr(<<"a", " ">>)})

NextRace ==
    \E p \in Proc :
        \/ Startup(p)
        \/ Vote(p, RaceInputs)
        \/ Reset(p, RaceInputs)
        \/ Submit(p, PollBatches)
        \/ Start(p)
        \/ AdvanceNext(p)
        \/ End(p)

SpecRace == Init /\ [][NextRace]_vars

\* the endpoints that validate their input, on a listening process
InputInputs ==
    Inputs(1, 1, {Undefined, JNum(0), JStr(<<"x">>)}, {Undefined, JNum(0)},
           {Undefined, JStr(<<" ">>), JStr(<<"a">>)})
    @@ [text |-> {Undefined, JStr(<<" ">>), JStr(<<" ", "t">>), JNum(1)},
        user |-> {Undefined, JStr(<<" ">>), JStr(<<"u">>), JNum(1)},
        id |-> {Undefined, JNum(0), JNum(1), JStr(<<"2">>)}]

NextInput ==
    \E p \in {"p1"} :
        \/ Vote(p, InputInputs)
        \/ Reset(p, InputInputs)
        \/ Submit(p, InputInputs)
        \/ Qna(p, InputInputs)

SpecInput == InitServing /\ [][NextInput]_vars

\* GET /api/stats on ledgers that three devices and the legacy client can
\* have written on a fresh database: each device has answered the first
\* question with one of its options or not at all, and the rows without a
\* device are none, two equal ones, or one naming an option of another question
TallyDevices == {<<"a">>, <<"b">>, <<"c">>}

TallyLedgers ==
    {SetToBag({Row(1, f[d], Some(d)) : d \in {x \in TallyDevices : f[x] # 0}}) (+) bulk :
        f \in [TallyDevices -> 0..SeedOptionsPerQuestion],
        bulk \in {EmptyBag, (Row(1, 3, Null) :> 2), (Row(2, 1, Null) :> 1)}}

InitTally ==
    \E B \in TallyLedgers : InitFrom([ServingStore EXCEPT !.responses = B], {"p1"})

TallyQueries == {Undefined, JStr(<<"0">>), JStr(<<"1">>), JStr(<<"x">>), JStr(<<"9">>)}

NextTally == \E p \in {"p1"} : \E rqid \in TallyQueries : Stats(p, rqid)

SpecTally == InitTally /\ [][NextTally]_vars

\* every endpoint of one process
AllInputs ==
    RaceInputs
    @@ [text |-> {JStr(<<" ", "t">>)},
        user |-> {Undefined},
        id |-> {JNum(1)},
        qid |-> {Undefined, JStr(<<"1">>)},
        correct |-> {JNull, JNum(1)},
        reveal |-> {JBool(TRUE), JBool(FALSE)}]

Next ==
    \E p \in {"p1"} :
        \/ Startup(p)
        \/ Crash(p)
        \/ Vote(p, RaceInputs)
        \/ Reset(p, RaceInputs)
        \/ Submit(p, PollBatches)
        \/ State(p)
        \/ \E rqid \in AllInputs.qid : Stats(p, rqid)
        \/ \E rq \in AllInputs.q, ro \in AllInputs.correct : Correct(p, rq, ro)
        \/ \E rv \in AllInputs.reveal : RevealCorrect(p, rv)
        \/ Start(p)
        \/ AdvanceNext(p)
        \/ End(p)
        \/ Qna(p, AllInputs)

Spec == Init /\ [][Next]_vars

(***************************************************************************)
(* Properties                                                              *)
(***************************************************************************)
\* the vote rows recorded for device d on question q, counted with multiplicity
VotesOf(B, d, q) ==
    BagCardinality([r \in {x \in BagToSet(B) :
                             x.device_id = Some(d) /\ x.question_id = q}
                      |-> CopiesIn(r, B)])

HasVote(B, d, q) == VotesOf(B, d, q) > 0

\* the row the process p is about to insert for POST /api/vote
PendingVote(p) == Row(loc[p].q, loc[p].o, Some(loc[p].d))

\* C1: in every reachable state the ledger holds at most one vote row for each
\* (deviceId, questionId) pair with a non-empty deviceId.
C1_OneVotePerDeviceAndQuestion ==
    \A r \in BagToSet(responses) :
        r.device_id # Null =>
            \A d \in r.device_id : d # <<>> /\ VotesOf(responses, d, r.question_id) = 1

\* two processes both passed the check for one pair; one has inserted its row,
\* the other is about to insert
C1_Witness ==
    \E p \in Proc :
        /\ pc[p] = "vote_insert"
        /\ HasVote(responses, loc[p].d, loc[p].q)
        /\ last.op = "vote" /\ last.status = 200 /\ last.proc # p
        /\ last.d = loc[p].d /\ last.q.n = loc[p].q

\* C2 (as claimed): of the concurrent valid submitVote calls for one pair,
\* every caller that is not answered ok is answered ALREADY_VOTED (409).  A
\* call is valid when its ids name a question and an option of the store.
C2_LosersObserveAlreadyVoted ==
    (/\ last.op = "vote"
     /\ last.status \notin {200, 400}
     /\ ForeignKeysOk(Row(last.q.n, last.o.n, Null)))
        => last.status = 409

\* C3 (as claimed): a submitVote that passed the existing-vote check and whose
\* insert the unique index rejects is answered ALREADY_VOTED (409).
C3_ConstraintMappedToAlreadyVoted ==
    [][\A p \in Proc :
          (/\ pc[p] = "vote_insert"
           /\ pc'[p] = "ready"
           /\ ~UniqueOk(responses, PendingVote(p)))
              => (last'.op = "vote" /\ last'.proc = p /\ last'.status = 409)]_vars

\* C4: a submitVote for a pair that already has a vote is answered
\* ALREADY_VOTED and changes nothing: it never reaches the insert, the ledger
\* (so the existing row and its option) is as before, no event is emitted.
C4_AlreadyVotedChangesNothing ==
    [][\A p \in Proc :
          /\ (pc[p] = "ready" /\ pc'[p] = "vote_insert")
                => ~HasVote(responses, loc'[p].d, loc'[p].q)
          /\ (pc[p] = "ready" /\ last'.op = "vote" /\ last'.proc = p /\ last'.status # 400)
                => /\ HasVote(responses, last'.d, last'.q.n)
                   /\ last'.status = 409
                   /\ last'.error = "ALREADY_VOTED"
                   /\ responses' = responses
                   /\ last'.events = <<>>]_vars

\* a vote for another option of an answered question was answered 409, and the
\* row still names the first option
C4_Witness ==
    /\ last.op = "vote"
    /\ last.status = 409
    /\ \E r \in BagToSet(responses) :
          /\ r.device_id = Some(last.d)
          /\ r.question_id = last.q.n
          /\ r.option_id # last.o.n

\* an id that is zero or spells no number
BadId(x) ==
    ~\E n \in (-9..9) \ {0} :
        \/ x.kind = "number" /\ x.n = n
        \/ x.kind = "string" /\ Trim(x.s) = <<ToString(n)>>

\* a text or deviceId that is missing or empty after trimming
Blank(x) == x.kind \in {"undefined", "null"} \/ (x.kind = "string" /\ Trim(x.s) = <<>>)

\* the answer to a malformed request: 400, the store untouched, no event
Rejected400 ==
    /\ last'.status = 400
    /\ last'.events = <<>>
    /\ UNCHANGED store

\* C5 (as claimed): every operation called with a missing or malformed
\* identifier (vote, reset, highlight, reject, Q&A submit with a blank text,
\* submit with an empty list) is answered 400, leaves the store unchanged and
\* emits no event.
C5_MalformedRejected ==
    [][\A p \in Proc :
          /\ \A rq \in InputInputs.q, ro \in InputInputs.o, rd \in InputInputs.d :
                (VoteCheck(p, rq, ro, rd) /\ (BadId(rq) \/ BadId(ro) \/ Blank(rd)))
                    => Rejected400
          /\ \A rq \in InputInputs.q, rd \in InputInputs.d :
                (ResetVote(p, rq, rd) /\ (BadId(rq) \/ Blank(rd))) => Rejected400
          /\ \A rid \in InputInputs.id :
                ((QnaHighlight(p, rid) \/ QnaReject(p, rid)) /\ BadId(rid)) => Rejected400
          /\ \A rtext \in InputInputs.text, ruser \in InputInputs.user :
                (QnaSubmit(p, rtext, ruser) /\ Blank(rtext)) => Rejected400
          /\ BulkSubmit(p, <<>>) => Rejected400]_vars

\* C6: a resetVote answered ok returns removed = 1 and emits one statsUpdated
\* when the pair had a row, returns removed = 0 and emits nothing when it had
\* none, and changes no row of another device or another question.
C6_ResetRemovesOnlyThePair ==
    [][\A p \in Proc :
          (/\ pc[p] = "ready" /\ pc'[p] = "ready"
           /\ last'.op = "reset" /\ last'.proc = p /\ last'.status = 200)
             => LET d == last'.d
                    q == last'.q.n
                    had == HasVote(responses, d, q)
                IN /\ last'.removed = IF had THEN 1 ELSE 0
                   /\ last'.events = IF had THEN <<Ev("statsUpdated")>> ELSE <<>>
                   /\ \A r \in BagToSet(responses) \cup BagToSet(responses') :
                         CopiesIn(r, responses') =
                            IF r.device_id = Some(d) /\ r.question_id = q
                            THEN 0 ELSE CopiesIn(r, responses)]_vars

\* a reset removed the row of a device that keeps its row on another question
C6_Witness ==
    /\ last.op = "reset"
    /\ last.removed = 1
    /\ \E r \in BagToSet(responses) :
          r.device_id = Some(last.d) /\ r.question_id # last.q.n

\* C7: a device can vote again after its vote is removed.  After a resetVote
\* answered ok the pair has no row, and after start() the ledger has none; the
\* submitVote that follows for the pair is not answered ALREADY_VOTED; a
\* submitVote is answered ALREADY_VOTED only when the pair has a row, and
\* otherwise the insert of a valid one (its ids name a question and an option)
\* succeeds with ok and records the row.
C7_VoteAgainAfterRemoval ==
    [][\A p \in Proc :
          /\ (last'.op = "reset" /\ last'.status = 200)
                => ~HasVote(responses', last'.d, last'.q.n)
          /\ (last'.op = "start") => responses' = EmptyBag
          /\ (/\ pc[p] = "ready" /\ last'.op = "vote" /\ last'.proc = p
              /\ \/ last.op = "start"
                 \/ /\ last.op = "reset" /\ last.status = 200
                    /\ last.q = last'.q /\ last.d = last'.d)
                => last'.status # 409
          /\ (pc[p] = "ready" /\ last'.op = "vote" /\ last'.proc = p /\ last'.status = 409)
                => HasVote(responses, last'.d, last'.q.n)
          /\ (pc[p] = "vote_insert" /\ pc'[p] = "ready" /\ ForeignKeysOk(PendingVote(p)))
                => /\ last'.status = 200
                   /\ CopiesIn(PendingVote(p), responses') = 1]_vars

\* a reset removed a device's row, and the device's next vote on the question
\* has passed the check and is about to be inserted
C7_Witness ==
    /\ last.op = "reset"
    /\ last.removed = 1
    /\ \E p \in Proc :
          /\ pc[p] = "vote_insert"
          /\ loc[p].d = last.d
          /\ loc[p].q = last.q.n
          /\ ~HasVote(responses, last.d, last.q.n)

\* the vote rows recorded for option o, counted with multiplicity
RowsOfOption(B, o) ==
    BagCardinality([r \in {x \in BagToSet(B) : x.option_id = o} |-> CopiesIn(r, B)])

\* the vote rows recorded for any option of the set os
RowsOfOptions(B, os) ==
    BagCardinality([r \in {x \in BagToSet(B) : x.option_id \in os} |-> CopiesIn(r, B)])

OptionsOf(q) == {o.id : o \in {x \in options : x.question_id = q}}

\* C8: tally reports, for each option of each question it covers, the number
\* of vote rows recorded for that option (0 when there is none), and a total
\* equal to the sum of those counts; it covers every question, or the one asked.
C8_TallyCountsRows ==
    last.op = "stats" =>
        /\ {e.id : e \in last.stats} =
              IF Falsy(last.q) THEN QuestionIds ELSE QuestionIds \cap {last.q.n}
        /\ \A e \in last.stats :
              /\ DOMAIN e.options = OptionsOf(e.id)
              /\ \A o \in DOMAIN e.options : e.options[o] = RowsOfOption(responses, o)
              /\ e.total = RowsOfOptions(responses, OptionsOf(e.id))

\* votes A, A, B of three distinct devices on the first question: A:2 B:1 C:0,
\* total 3
C8_Witness ==
    /\ last.op = "stats"
    /\ responses = SetToBag({Row(1, 1, Some(<<"a">>)), Row(1, 1, Some(<<"b">>)),
                             Row(1, 2, Some(<<"c">>))})
    /\ \E e \in last.stats :
          e.id = 1 /\ e.total = 3 /\ e.options = (1 :> 2) @@ (2 :> 1) @@ (3 :> 0)

\* the index the store holds
StoredIndex(m) == CHOOSE n \in 0..9 : ToString(n) = m["active_question_index"]

\* C9: next() sets activeQuestionIndex to min(current + 1, questionCount - 1)
\* and returns that index; at the last question it leaves the index unchanged
\* and returns it.
C9_NextClamps ==
    [][\A p \in Proc :
          /\ (pc[p] = "next_index" /\ pc'[p] = "next_status")
                => /\ StoredIndex(meta') =
                         Min(StoredIndex(meta) + 1, Cardinality(questions) - 1)
                   /\ StoredIndex(meta) = Cardinality(questions) - 1
                         => StoredIndex(meta') = StoredIndex(meta)
          /\ (last'.op = "next")
                => /\ last'.status = 200
                   /\ last'.index = StoredIndex(meta')]_vars

\* next() was called on the last question and answered its index
C9_Witness ==
    /\ last.op = "next"
    /\ last.current = Cardinality(questions) - 1
    /\ last.index = last.current
    /\ StoredIndex(meta) = last.index

\* what start() establishes
StartDone ==
    /\ responses = EmptyBag
    /\ MetaOr("active_question_index", "") = "0"
    /\ MetaOr("poll_status", "") = "running"

\* C10: start() succeeds from every poll state, and when it answers the ledger
\* is empty (rows of devices and rows without a device alike), the index is 0,
\* the status is running and one stateChanged was emitted; its steps change
\* nothing else, and change nothing at all where the ledger is already empty,
\* the index 0 and the status running: a second start() in a row leaves the
\* state of the first.
C10_StartResets ==
    [][\A p \in Proc :
          /\ pc[p] = "ready" => ENABLED StartDelete(p)
          /\ pc[p] = "start_index" => ENABLED StartIndex(p)
          /\ pc[p] = "start_status" => ENABLED StartStatus(p)
          /\ (last'.op = "start")
                => /\ last'.status = 200
                   /\ last'.events = <<Ev("stateChanged")>>
                   /\ responses' = EmptyBag
                   /\ meta'["active_question_index"] = "0"
                   /\ meta'["poll_status"] = "running"
          /\ (pc'[p] \in {"start_index", "start_status"} \/ last'.op = "start")
                => /\ UNCHANGED <<questions, options, qna, seq, idx>>
                   /\ DOMAIN meta' = DOMAIN meta
                   /\ \A k \in DOMAIN meta \ {"active_question_index", "poll_status"} :
                         meta'[k] = meta[k]
                   /\ StartDone => UNCHANGED store]_vars

\* start() has answered on a poll that was at a later question
C10_Witness ==
    /\ last.op = "start"
    /\ last.status = 200
    /\ responses = EmptyBag
    /\ meta["poll_status"] = "running"

\* the ids of the questions and the (id, question_id) of the options of one
\* seed transaction of n questions that started at the counters sq, so
GenerationAt(sq, so, n) ==
    [questions |-> {q.id : q \in SeededQuestions(sq, n)},
     options |-> SeededOptions(sq, so, n)]

\* the question set the store holds
StoredGeneration == [questions |-> QuestionIds, options |-> options]

\* the state is one a reader can find: a process is listening, or the
\* processes are all down after a crash
Observable ==
    \/ \E p \in Proc : pc[p] = "ready"
    \/ crashes > 0 /\ \A p \in Proc : pc[p] = "down"

\* C11 (as claimed): reseeding is all-or-nothing.  On a store that has been
\* seeded, what a reader or a restart finds is the complete prior generation
\* or one complete new generation, never an empty, partial or mixed set.
C11_ReseedAllOrNothing ==
    (Observable /\ seq.questions > 0) =>
        \/ StoredGeneration = GenerationAt(0, 0, PriorSeedQuestions)
        \/ \E sq \in 0..seq.questions, so \in 0..seq.options :
              StoredGeneration = GenerationAt(sq, so, SeedQuestions)

(***************************************************************************)
(* POST /api/submit on a listening process, with votes, resets and start   *)
(***************************************************************************)
\* entries naming the first two questions and options, a stale question (-1),
\* a zero or missing id, and a null entry
BatchInputs ==
    [Inputs(2, 2, {Undefined, JNum(0), StaleId}, {JNum(0)}, {JStr(<<"a">>)})
        EXCEPT !.a = @ \cup {NullAnswer}]

NextBatch ==
    \E p \in {"p1"} :
        \/ Submit(p, BatchInputs)
        \/ Vote(p, RaceInputs)
        \/ Reset(p, RaceInputs)
        \/ Start(p)

SpecBatch == InitServing /\ [][NextBatch]_vars

\* the entries of a batch that have both ids present and non-zero, in order
RECURSIVE Kept(_)
Kept(rows) ==
    IF rows = <<>> THEN <<>>
    ELSE LET row == Head(rows)
         IN IF JFalsy(row.questionId) \/ JFalsy(row.optionId)
            THEN Kept(Tail(rows))
            ELSE <<row>> \o Kept(Tail(rows))

\* one vote row, without a device, for each entry of rows
RECURSIVE RowsFor(_)
RowsFor(rows) ==
    IF rows = <<>> THEN EmptyBag
    ELSE SetToBag({Row(Number(Head(rows).questionId).n,
                       Number(Head(rows).optionId).n, Null)}) (+) RowsFor(Tail(rows))

\* every entry of rows names a question and an option of the store
Stocked(rows) ==
    \A i \in 1..Len(rows) :
        /\ Bindable(rows[i].questionId) /\ Bindable(rows[i].optionId)
        /\ Number(rows[i].questionId).n \in QuestionIds
        /\ Number(rows[i].optionId).n \in OptionIds

\* C12 (as claimed): bulkSubmit with a non-empty list inserts exactly one row
\* for each entry whose ids are both present and non-zero, skips every other
\* entry without failing the batch, and broadcasts statsUpdated exactly once.
\* (Batches with an entry that names no stored question or option are the
\* rejected batches of C20, and are left out here.)
C12_BulkInsertsValidEntries ==
    [][\A p \in Proc :
          (/\ pc[p] = "ready" /\ last'.op = "submit" /\ last'.proc = p
           /\ Len(last'.answers) > 0
           /\ Stocked(Kept(last'.answers)))
             => /\ last'.status = 200
                /\ responses' = responses (+) RowsFor(Kept(last'.answers))
                /\ last'.events = <<Ev("statsUpdated")>>]_vars

\* a kept entry of the batch names no question or no option of the store
Refused(rows) == ~Stocked(Kept(rows))

\* C20: bulkSubmit is one transaction.  When the store rejects an insert of the
\* batch (an entry names no stored question or option), the batch is answered
\* with an error, the ledger is as before the call, so none of the batch's
\* rows is present, and no statsUpdated is emitted.
C20_BulkSubmitAtomic ==
    [][\A p \in Proc :
          (/\ pc[p] = "ready" /\ last'.op = "submit" /\ last'.proc = p
           /\ Refused(last'.answers))
             => /\ last'.status = 500
                /\ responses' = responses
                /\ last'.events = <<>>]_vars

\* a batch was rejected at its second entry, after the insert of its first
C20_Witness ==
    /\ last.op = "submit"
    /\ last.status = 500
    /\ Len(last.answers) = 2
    /\ Stocked(Kept(<<last.answers[1]>>))
    /\ Kept(<<last.answers[1]>>) # <<>>
    /\ last.answers[2].object
    /\ Refused(<<last.answers[2]>>)
    /\ \A r \in BagToSet(RowsFor(<<last.answers[1]>>)) : CopiesIn(r, responses) = 0

(***************************************************************************)
(* The Q&A queue on a listening process                                    *)
(***************************************************************************)
\* one question text; ids the moderator sends: zero, the first two ids
QnaInputs ==
    [text |-> {JStr(<<" ">>), JStr(<<"t">>)},
     user |-> {Undefined, JStr(<<"u">>)},
     id |-> {JNum(0), JNum(1), JNum(2)}]

NextQna == \E p \in {"p1"} : Qna(p, QnaInputs)

SpecQna == InitServing /\ [][NextQna]_vars

\* the ids a list() answer includes
Listed(r) == {r.list[i].id : i \in 1..Len(r.list)}

\* the ids rejected so far; those rejected when a submission had the id
RejectedIds == {r.id : r \in rejected}
RejectedIssuedIds == {r.id : r \in {x \in rejected : x.issued}}

\* C13 (as claimed): after reject(id) no later list() includes that id,
\* whatever submissions, highlights or rejections follow; rejecting the same
\* id again is answered ok and leaves the queue unchanged.
C13_RejectedNeverListed ==
    [][\A p \in Proc :
          /\ last'.op = "qnaList" => Listed(last') \cap RejectedIds = {}
          /\ (/\ pc[p] = "ready" /\ last'.op = "qnaReject" /\ last'.proc = p
              /\ last'.status # 400
              /\ last'.id.n \in RejectedIds)
                => (last'.status = 200 /\ qna' = qna)]_vars

\* C13 (amended): after reject(id) of an id a submission has been given, no
\* later list() includes that id, whatever submissions, highlights or
\* rejections follow: a new submission takes an id never given before;
\* rejecting that id again is answered ok and leaves the queue unchanged.
C13_IssuedRejectedNeverListed ==
    [][\A p \in Proc :
          /\ last'.op = "qnaList" => Listed(last') \cap RejectedIssuedIds = {}
          /\ \A r \in qna' \ qna : r.id > seq.qna /\ r.id \notin RejectedIssuedIds
          /\ (/\ pc[p] = "ready" /\ last'.op = "qnaReject" /\ last'.proc = p
              /\ last'.status # 400
              /\ last'.id.n \in RejectedIssuedIds)
                => (last'.status = 200 /\ qna' = qna)]_vars

\* the first submission was rejected, a second one made, and list() answers
\* with the second alone
C13_Witness ==
    /\ last.op = "qnaList"
    /\ 1 \in RejectedIssuedIds
    /\ Listed(last) = {2}

\* the store holds what the operation answered in r wrote
Written(r) ==
    CASE r.op = "vote" -> CopiesIn(Row(r.q.n, r.o.n, Some(r.d)), responses) = 1
      [] r.op = "reset" -> ~HasVote(responses, r.d, r.q.n)
      [] r.op = "submit" ->
            \A x \in BagToSet(RowsFor(Kept(r.answers))) :
                CopiesIn(x, responses) >= CopiesIn(x, RowsFor(Kept(r.answers)))
      [] r.op = "start" ->
            /\ responses = EmptyBag
            /\ MetaOr("active_question_index", "") = "0"
            /\ MetaOr("poll_status", "") = "running"
      [] r.op = "next" ->
            /\ MetaOr("active_question_index", "") = ToString(r.index)
            /\ MetaOr("poll_status", "") = "running"
      [] r.op = "end" -> MetaOr("poll_status", "") = "ended"
      [] r.op = "reveal" ->
            MetaOr("reveal_correct", "") = IF r.reveal THEN "1" ELSE "0"
      [] r.op = "correct" ->
            \A x \in questions : x.id = r.q.n => x.correct_option_id = Stored(r.o)
      [] r.op = "qnaSubmit" -> \E x \in qna : x.id = r.id.n
      [] r.op = "qnaHighlight" -> MetaOr("qna_highlight_id", "") = ToString(r.id.n)
      [] r.op = "qnaUnhighlight" -> MetaOr("qna_highlight_id", "") = "0"
      [] r.op = "qnaReject" -> ~\E x \in qna : x.id = r.id.n
      [] OTHER -> FALSE

\* the store holds the write of the operation just answered
LastWritten == Written(last)

\* the step emits: it has events, and is not the check of a vote, during which
\* the answer to the removal before it stays observed
Emits == last'.events # <<>> /\ \A p \in Proc : pc'[p] # "vote_insert" \/ pc[p] # "ready"

\* C14: an operation's event is emitted only once its write is committed.  The
\* step that emits answers ok and ends the handler (no statement of it is
\* left), the store it leaves, which a viewer re-fetching on the event reads,
\* holds the write; an operation that is rejected or fails emits nothing and
\* has written nothing.
C14_BroadcastAfterCommit ==
    [][/\ Emits =>
             /\ last'.status = 200
             /\ pc'[last'.proc] = "ready"
             /\ LastWritten'
       /\ last'.status \in {400, 409, 500} =>
             /\ last'.events = <<>>
             /\ UNCHANGED store]_vars

\* a vote was recorded and its statsUpdated emitted
C14_Witness ==
    /\ last.op = "vote"
    /\ last.events = <<Ev("statsUpdated")>>
    /\ CopiesIn(Row(last.q.n, last.o.n, Some(last.d)), responses) = 1

(***************************************************************************)
(* The requests that write, on one listening process                       *)
(***************************************************************************)
\* one device, the first question and option and a stale question id, one
\* text, the first Q&A id
NotifyInputs ==
    Inputs(1, 1, {StaleId}, {}, {JStr(<<"a">>)})
    @@ [text |-> {JStr(<<"t">>)},
        user |-> {Undefined},
        id |-> {JNum(1)},
        correct |-> {JNull, JNum(1)},
        reveal |-> {JBool(TRUE), JBool(FALSE)}]

NextNotify ==
    \E p \in {"p1"} :
        \/ Vote(p, NotifyInputs)
        \/ Reset(p, NotifyInputs)
        \/ \E a \in NotifyInputs.a : BulkSubmit(p, <<a>>)
        \/ \E rq \in NotifyInputs.q, ro \in NotifyInputs.correct : Correct(p, rq, ro)
        \/ \E rv \in NotifyInputs.reveal : RevealCorrect(p, rv)
        \/ Start(p)
        \/ AdvanceNext(p)
        \/ End(p)
        \/ \E rtext \in NotifyInputs.text, ruser \in NotifyInputs.user :
              QnaSubmit(p, rtext, ruser)
        \/ \E rid \in NotifyInputs.id : QnaHighlight(p, rid)
        \/ \E rid \in NotifyInputs.id : QnaReject(p, rid)
        \/ QnaUnhighlight(p)

SpecNotify == InitServing /\ [][NextNotify]_vars


\* the step changes what a viewer reads: the ledger, the poll state, a correct
\* option or the Q&A queue
Mutates == <<responses, meta, qna, questions>>' # <<responses, meta, qna, questions>>

\* the positions of start and next after their first write and before io.emit
Writing == {"start_index", "start_status", "next_status"}

\* C15: an operation that changes the ledger, the poll state or the Q&A queue
\* is followed by a notification.  A step that changes any of them either
\* emits an event and ends its handler, or is a write of start or next that
\* leaves the handler before a later write; and a handler at such a position
\* moves only to the next one or to the step that emits.
C15_MutationBroadcasts ==
    [][/\ Mutates =>
             \E p \in Proc :
                 \/ pc'[p] \in Writing /\ pc'[p] # pc[p]
                 \/ Emits /\ last'.proc = p /\ pc'[p] = "ready"
       /\ \A p \in Proc :
             pc[p] \in Writing /\ pc'[p] # pc[p] =>
                 \/ pc'[p] \in Writing
                 \/ Emits /\ last'.proc = p /\ pc'[p] = "ready"]_vars

\* a resetVote removed the only row and emitted statsUpdated
C15_Witness ==
    /\ last.op = "reset"
    /\ last.removed = 1
    /\ last.events = <<Ev("statsUpdated")>>
    /\ responses = EmptyBag


(***************************************************************************)
(* The admin transitions on two listening processes                        *)
(***************************************************************************)
\* both instances listening on the seeded database
InitAdmin == InitFrom(ServingStore, Proc)

NextAdmin ==
    \E p \in Proc :
        \/ State(p)
        \/ Start(p)
        \/ AdvanceNext(p)
        \/ End(p)

SpecAdmin == InitAdmin /\ [][NextAdmin]_vars

\* C16: an admin transition is one atomic unit for every reader of the store.
\* What GET /api/state answers on one instance while start() on the other has
\* cleared the votes is index 0 and status running, and while next() on the
\* other has advanced the index the status it answers is not ended.
C16_AdminTransitionsAtomic ==
    last.op = "state" =>
        \A p \in Proc \ {last.proc} :
            /\ pc[p] \in {"start_index", "start_status"} =>
                   last.index = 0 /\ last.poll = "running"
            /\ pc[p] = "next_status" /\ loc[p].next # loc[p].current =>
                   last.poll # "ended"


(***************************************************************************)
(* Startup, restart and next() on two processes                            *)
(***************************************************************************)
NextReseed ==
    \E p \in Proc :
        \/ Startup(p)
        \/ Crash(p)
        \/ AdvanceNext(p)

SpecReseed == Init /\ [][NextReseed]_vars

\* activeIndex as GET /api/state computes it
ActiveIndex == ParseNumber(MetaOr("active_question_index", "0"))

\* C17: activeQuestionIndex is a non-negative integer, and at most
\* questionCount - 1 whenever a question exists.
C17_IndexWithinQuestions ==
    /\ ~ActiveIndex.nan
    /\ ActiveIndex.n >= 0
    /\ questions # {} => ActiveIndex.n <= Cardinality(questions) - 1


\* the positions of next() after its first statement
NextPositions == {"next_current", "next_index", "next_status"}

\* C18: next() sets the status to running from every prior status.  It can be
\* called in every state of a listening process and each of its statements can
\* run; when it answers, the status is running, whatever it was (ended, idle
\* or running), and one stateChanged was emitted; none of its steps changes
\* the ledger.
C18_NextRevives ==
    [][\A p \in Proc :
          /\ pc[p] = "ready" => ENABLED NextTotal(p)
          /\ pc[p] = "next_current" => ENABLED NextCurrent(p)
          /\ pc[p] = "next_index" => ENABLED NextSetIndex(p)
          /\ pc[p] = "next_status" => ENABLED NextStatus(p)
          /\ (last'.op = "next")
                => /\ last'.status = 200
                   /\ last'.before \in {"idle", "running", "ended"}
                   /\ meta'["poll_status"] = "running"
                   /\ last'.events = <<Ev("stateChanged")>>
          /\ (pc'[p] \in NextPositions \/ last'.op = "next")
                => UNCHANGED <<responses, questions, options, qna>>]_vars

\* next() has answered on a poll that was ended, with a vote in the ledger
C18_Witness ==
    /\ last.op = "next"
    /\ last.before = "ended"
    /\ responses # EmptyBag
    /\ meta["poll_status"] = "running"


\* the positions of start() and next() after their first statement
AdminPositions == {"start_index", "start_status"} \cup NextPositions

\* C19: setReveal(flag) succeeds in every status, sets revealCorrect to the
\* flag and changes nothing else (status, index, highlight, ledger, questions,
\* Q&A queue); the steps of start(), next() and end() leave revealCorrect as
\* it was.
C19_RevealIndependent ==
    [][\A p \in Proc :
          /\ pc[p] = "ready" =>
                \A rv \in NotifyInputs.reveal : ENABLED RevealCorrect(p, rv)
          /\ (last'.op = "reveal")
                => /\ last'.status = 200
                   /\ meta'["reveal_correct"] = IF last'.reveal THEN "1" ELSE "0"
                   /\ DOMAIN meta' = DOMAIN meta
                   /\ \A k \in DOMAIN meta \ {"reveal_correct"} : meta'[k] = meta[k]
                   /\ UNCHANGED <<responses, qna, questions, options, seq>>
          /\ (pc'[p] \in AdminPositions \/ last'.op \in {"start", "next", "end"})
                => meta'["reveal_correct"] = meta["reveal_correct"]]_vars

\* the flag was set on an ended poll with a vote in the ledger and a
\* submission in the queue
C19_Witness ==
    /\ last.op = "reveal"
    /\ last.reveal
    /\ meta["reveal_correct"] = "1"
    /\ meta["poll_status"] = "ended"
    /\ responses # EmptyBag
    /\ qna # {}


(***************************************************************************)
(* Votes on two questions and their tallies                                *)
(***************************************************************************)
\* one device; the first two questions and the options of both
LedgerInputs ==
    Inputs(2, 2 * SeedOptionsPerQuestion, {}, {}, {JStr(<<"a">>)})
    @@ [qid |-> {JStr(<<"1">>), JStr(<<"2">>)}]

NextLedger ==
    \E p \in {"p1"} :
        \/ Vote(p, LedgerInputs)
        \/ Reset(p, LedgerInputs)
        \/ \E rqid \in LedgerInputs.qid : Stats(p, rqid)

SpecLedger == InitServing /\ [][NextLedger]_vars

\* the vote rows recorded for question q, counted with multiplicity
RowsOfQuestion(B, q) ==
    BagCardinality([r \in {x \in BagToSet(B) : x.question_id = q} |-> CopiesIn(r, B)])

\* the rows of device d that the tally of question q counts
CountedOf(B, d, q) ==
    BagCardinality([r \in {x \in BagToSet(B) :
                              x.device_id = Some(d) /\ x.option_id \in OptionsOf(q)}
                      |-> CopiesIn(r, B)])

\* C21: every vote row's option belongs to the row's question, so the total
\* tally reports for a question is the number of rows recorded for that
\* question, and no device has more than one row counted in it.
C21_OptionOfQuestion ==
    /\ \A r \in BagToSet(responses) : r.option_id \in OptionsOf(r.question_id)
    /\ last.op = "stats" =>
          \A e \in last.stats :
              /\ e.total = RowsOfQuestion(responses, e.id)
              /\ \A d \in {Trim(StringOr(x)) : x \in LedgerInputs.d} :
                    CountedOf(responses, d, e.id) <= 1


\* what GET /api/stats returns for every question
AllTallies == {Tally(responses, q) : q \in questions}

\* the step changes what tally returns (it reads these three tables)
TallyChanges ==
    /\ <<responses, questions, options>>' # <<responses, questions, options>>
    /\ AllTallies' # AllTallies

\* the step emits the event named name
EmitsEvent(name) ==
    Emits /\ \E i \in DOMAIN last'.events : last'.events[i].name = name

\* the step is the DELETE of a start() on some process, and the answer of
\* start() emits the event named name
StartDeletes(name) ==
    /\ \E p \in Proc : pc[p] = "ready" /\ pc'[p] = "start_index"
    /\ \E i \in DOMAIN StartEvents : StartEvents[i].name = name

\* C22 (as stated): every operation that changes what tally returns emits
\* statsUpdated, start() included: a step that changes a tally emits it, or is
\* the DELETE of a start() whose answer emits it.
C22_TallyChangeEmitsStatsUpdated ==
    [][TallyChanges =>
          EmitsEvent("statsUpdated") \/ StartDeletes("statsUpdated")]_vars

\* C22 (amended): every operation that changes what tally returns emits
\* statsUpdated, except start(), which emits stateChanged: a step that changes
\* a tally emits statsUpdated or is the DELETE of a start(), the statements of
\* start() after it lead to its answer, and the answer emits stateChanged.
C22_TallyChangeEmitsEvent ==
    [][/\ TallyChanges =>
             EmitsEvent("statsUpdated") \/ StartDeletes("stateChanged")
       /\ \A p \in Proc :
             /\ pc[p] = "start_index" /\ pc'[p] # pc[p] => pc'[p] = "start_status"
             /\ pc[p] = "start_status" /\ pc'[p] # pc[p] =>
                   /\ last'.op = "start" /\ last'.proc = p
                   /\ EmitsEvent("stateChanged")]_vars

\* the correct option of a question was set and statsUpdated emitted
C22_Witness ==
    /\ last.op = "correct"
    /\ last.events = <<Ev("statsUpdated")>>
    /\ \E q \in questions : q.id = last.q.n /\ q.correct_option_id = Some(last.o.n)


\* the id GET /api/qna/highlight answers
HighlightId == ParseNumber(MetaOr("qna_highlight_id", "0"))

\* C23: the highlighted-item pointer is 0 (none) or the id of an item that is
\* in the queue; after reject(id) of the highlighted item it no longer names it.
C23_HighlightNamesItem ==
    /\ ~HighlightId.nan
    /\ HighlightId.n = 0 \/ HighlightId.n \in {r.id : r \in qna}


\* C24: the outcome of submitVote and resetVote is a function of the ledger
\* and the request alone, and they leave the poll state as it is.  In every
\* poll state a valid vote is answered ALREADY_VOTED exactly when the ledger
\* holds a row of the device for the question and is accepted exactly when it
\* holds none, the row it adds is the one asked for, resetVote removes and
\* reports the rows of the pair, and no step of either changes a meta value.
C24_VoteIgnoresPollState ==
    [][\A p \in Proc :
          /\ (pc[p] = "ready" /\ pc'[p] = "ready" /\ last'.op = "vote"
                /\ last'.proc = p /\ last'.status # 400)
                => /\ last'.status = 409
                   /\ HasVote(responses, last'.d, last'.q.n)
                   /\ UNCHANGED store
          /\ (pc[p] = "ready" /\ pc'[p] = "vote_insert")
                => /\ ~HasVote(responses, loc'[p].d, loc'[p].q)
                   /\ UNCHANGED store
          /\ (pc[p] = "vote_insert" /\ pc'[p] = "ready"
                /\ loc[p].q \in QuestionIds /\ loc[p].o \in OptionIds
                /\ ~HasVote(responses, loc[p].d, loc[p].q))
                => /\ last'.op = "vote" /\ last'.status = 200
                   /\ responses' = responses (+) SetToBag({PendingVote(p)})
                   /\ UNCHANGED <<meta, questions, options, qna>>
          /\ (pc[p] = "ready" /\ pc'[p] = "ready" /\ last'.op = "reset"
                /\ last'.proc = p /\ last'.status # 400)
                => /\ last'.status = 200
                   /\ last'.removed = VotesOf(responses, last'.d, last'.q.n)
                   /\ ~HasVote(responses', last'.d, last'.q.n)
                   /\ UNCHANGED <<meta, questions, options, qna>>]_vars

\* a vote was accepted on an ended poll, past the first question, with the
\* correct answers revealed
C24_Witness ==
    /\ last.op = "vote"
    /\ last.status = 200
    /\ meta["poll_status"] = "ended"
    /\ meta["active_question_index"] # "0"
    /\ meta["reveal_correct"] = "1"


\* the question set is one complete seed of the current version
CurrentSeed ==
    \E sq \in 0..seq.questions, so \in 0..seq.options :
        StoredGeneration = GenerationAt(sq, so, SeedQuestions)

\* C25: the seed-version marker is written only after the new generation is
\* fully inserted.  Whenever the stored marker equals the current version the
\* question set is exactly one complete current seed, and a process serves
\* requests (after a first startup or after a restart that followed a crash
\* during reseeding) only with the marker at the current version.
C25_MarkerMeansSeeded ==
    /\ MetaOr("seed_version", "0") = SeedVersion => CurrentSeed
    /\ \A p \in Proc :
          pc[p] \in {"ready", "vote_insert"} \cup AdminPositions =>
              MetaOr("seed_version", "0") = SeedVersion

=============================================================================
